---- MODULE Spec2Model ----
(***************************************************************************)
(* Model of src/exec.go: the terminal hand-off of a tea.Program.           *)
(*                                                                         *)
(* Program.exec is modelled one step per statement; the stream proxies     *)
(* (ReaderProxy.Read, WriterProxy.Write) and the setters of OsExecCommand  *)
(* are operators applied by the steps that call them.  The host program    *)
(* (ReleaseTerminal, RestoreTerminal, Send and the event loop) is not part *)
(* of exec.go; it is modelled from its description in spec.md.             *)
(***************************************************************************)
EXTENDS Integers, Sequences, FiniteSets, TLC

\* ------------------------------------------------------------------ bounds
MaxExecs == 2      \* executions the host loop performs
BufLen   == 2      \* length of the buffer handed to Read / Write
MaxSets  == 3      \* setter calls made on one command in SetterSpec

\* ------------------------------------------------------------------ values
\* error values: 0 is nil, the others are two distinct failures
NoErr  == 0
Errors == {1, 2}
Outcomes == {NoErr} \cup Errors

\* a stream slot of the command (exec.Cmd.Stdin / Stdout / Stderr) or a proxy:
\* kind "nil" (unset), "own" (bound by the caller), "proxy" (a ReaderProxy or
\* WriterProxy value with its From and the presence of its Handler)
NilStream == [kind |-> "nil", From |-> "nil", Handler |-> FALSE]
OwnStream == [kind |-> "own", From |-> "own", Handler |-> FALSE]
Proxy(from, h) == [kind |-> "proxy", From |-> from, Handler |-> h]

\* buffers
ZeroBuf == [i \in 1..BufLen |-> 0]
Data    == {[i \in 1..BufLen |-> i]}   \* the bytes a source delivers or the command writes
IOOutcomes == {NoErr, 1}               \* what a source's Read or a sink's Write returns as err

NoRet == [n |-> -1, err |-> -1, b |-> << >>]
NoMsg == [id |-> 0, err |-> -1]

VARIABLES
    pc,        \* position of the host loop / of Program.exec
    c,         \* the ExecCommand being executed (an OsExecCommand)
    fn,        \* TRUE iff the ExecCallback is non-nil
    loc,       \* exec's locals stdinProxy, stdoutProxy, stderrProxy
    err,       \* exec's local err: the value handed to fn
    outs,      \* outcomes of ReleaseTerminal, Run, RestoreTerminal (-1: not returned)
    released,  \* the host's terminal is released
    trace,     \* calls made by the current execution, in order
    cbArg,     \* arguments fn was called with in the current execution
    msg,       \* the Msg fn returned
    sends,     \* goroutines blocked in p.Send, by the Msg they carry
    stream,    \* messages the host loop has received
    execId,    \* number of executions started
    io         \* the last proxy call made by the command: its events and result

vars == <<pc, c, fn, loc, err, outs, released, trace, cbArg, msg, sends, stream, execId, io>>

NoCmd  == [Stdin |-> NilStream, Stdout |-> NilStream, Stderr |-> NilStream,
           StdinProxy |-> NilStream, StdoutProxy |-> NilStream, StderrProxy |-> NilStream]
NoLoc  == [stdinProxy |-> NilStream, stdoutProxy |-> NilStream, stderrProxy |-> NilStream]
NoOuts == [release |-> -1, run |-> -1, restore |-> -1]
NoSrc  == [d |-> << >>, n |-> -1, err |-> -1]
NoIO   == [op |-> "none", log |-> << >>, ret |-> NoRet, src |-> NoSrc]

\* ---------------------------------------------------------------- commands
\* wrapExecCommand: the caller's exec.Cmd (each stream unset or bound by the
\* caller) and the three proxies the caller passed, stored by value
wrapExecCommand(si, so, se, from, hi, ho, he) ==
    [Stdin |-> si, Stdout |-> so, Stderr |-> se,
     StdinProxy  |-> Proxy(from, hi),
     StdoutProxy |-> Proxy(from, ho),
     StderrProxy |-> Proxy(from, he)]

Slots == {NilStream, OwnStream}

\* ------------------------------------------------------------ OsExecCommand
GetProxies(cmd) ==
    [stdinProxy |-> cmd.StdinProxy, stdoutProxy |-> cmd.StdoutProxy,
     stderrProxy |-> cmd.StderrProxy]

SetStdin(cmd, r) ==
    IF cmd.Stdin.kind = "nil" THEN [cmd EXCEPT !.Stdin = r] ELSE cmd

\* a setter that always assigns
SetStdoutOverwrites(cmd, w) == [cmd EXCEPT !.Stdout = w]

SetStdout(cmd, w) ==
    IF cmd.Stdout.kind = "nil" THEN [cmd EXCEPT !.Stdout = w] ELSE cmd

SetStderr(cmd, w) ==
    IF cmd.Stderr.kind = "nil" THEN [cmd EXCEPT !.Stderr = w] ELSE cmd

\* ------------------------------------------------------------------ proxies
Ev(op, from, b, n, e) == [op |-> op, from |-> from, b |-> b, n |-> n, err |-> e]

\* what From.Read(b) leaves in b: the first n bytes come from the source
Filled(b, d, n) == [i \in 1..Len(b) |-> IF i <= n THEN d[i] ELSE b[i]]

\* a Read that calls the observer before the source, as Write does
ReadObservesFirst(s, b, d, n, e) ==
    LET b1 == Filled(b, d, n)
    IN  IF s.Handler
        THEN [log |-> <<Ev("Handler", s.From, b, 0, NoErr), Ev("From.Read", s.From, b, n, e)>>,
              ret |-> [n |-> n, err |-> e, b |-> b1], panic |-> FALSE]
        ELSE [log |-> << >>, ret |-> NoRet, panic |-> TRUE]

\* ReaderProxy.Read(b), the source returning (n, e) after writing d[1..n]:
\* the events of the call, the result, and whether the call panicked
Read(s, b, d, n, e) ==
    LET b1 == Filled(b, d, n)
        e1 == Ev("From.Read", s.From, b, n, e)
    IN  IF s.Handler
        THEN [log |-> <<e1, Ev("Handler", s.From, b1, n, e)>>,
              ret |-> [n |-> n, err |-> e, b |-> b1], panic |-> FALSE]
        ELSE [log |-> <<e1>>, ret |-> NoRet, panic |-> TRUE]

\* a Write that calls the observer after the sink, as Read does
WriteObservesLast(s, b, n, e) ==
    IF s.Handler
    THEN [log |-> <<Ev("From.Write", s.From, b, n, e), Ev("Handler", s.From, b, 0, NoErr)>>,
          ret |-> [n |-> n, err |-> e, b |-> b], panic |-> FALSE]
    ELSE [log |-> << >>, ret |-> NoRet, panic |-> TRUE]

\* a Write that hands the sink's result to the observer
WriteReportsResult(s, b, n, e) ==
    IF s.Handler
    THEN [log |-> <<Ev("Handler", s.From, b, n, e), Ev("From.Write", s.From, b, n, e)>>,
          ret |-> [n |-> n, err |-> e, b |-> b], panic |-> FALSE]
    ELSE [log |-> << >>, ret |-> NoRet, panic |-> TRUE]

\* WriterProxy.Write(b), the sink returning (n, e): n and err are still the
\* zero values of the named results when the Handler is called
Write(s, b, n, e) ==
    IF s.Handler
    THEN [log |-> <<Ev("Handler", s.From, b, 0, NoErr), Ev("From.Write", s.From, b, n, e)>>,
          ret |-> [n |-> n, err |-> e, b |-> b], panic |-> FALSE]
    ELSE [log |-> << >>, ret |-> NoRet, panic |-> TRUE]

\* --------------------------------------------------------------- host program
\* the terminal after ReleaseTerminal / RestoreTerminal returned r
AfterRelease(rel, r) == IF r = NoErr THEN TRUE ELSE rel
AfterRestore(rel, r) == IF r = NoErr THEN FALSE ELSE rel

\* the Msg an ExecCallback makes of the error it is given, for execution id
fnMsg(id, e) == [id |-> id, err |-> e]

Init ==
    /\ pc = "idle"
    /\ c = NoCmd
    /\ fn = FALSE
    /\ loc = NoLoc
    /\ err = -1
    /\ outs = NoOuts
    /\ released = FALSE
    /\ trace = << >>
    /\ cbArg = << >>
    /\ msg = NoMsg
    /\ sends = {}
    /\ stream = << >>
    /\ execId = 0
    /\ io = NoIO

\* ------------------------------------------------------------- Program.exec
\* the event loop takes an execMsg{cmd, fn} and calls p.exec(cmd, fn)
Exec ==
    /\ pc = "idle"
    /\ execId < MaxExecs
    /\ \E si \in Slots, so \in Slots, se \in Slots,
          from \in {"nil", "caller"}, hi \in BOOLEAN, ho \in BOOLEAN, he \in BOOLEAN :
            c' = wrapExecCommand(si, so, se, from, hi, ho, he)
    /\ fn' \in BOOLEAN
    /\ execId' = execId + 1
    /\ pc' = "release"
    /\ loc' = NoLoc /\ err' = -1 /\ outs' = NoOuts
    /\ trace' = << >> /\ cbArg' = << >> /\ msg' = NoMsg /\ io' = NoIO
    /\ UNCHANGED <<released, sends, stream>>

\* an exec that reports a failed release as success
ErrAfterReleaseFailureNil(r) == NoErr

\* the err exec reports after ReleaseTerminal failed with r
ErrAfterReleaseFailure(r) == r

\* an exec that tries to restore the terminal it could not release
ReleaseNextRestores(r) == IF r # NoErr THEN "restoreF" ELSE "wire"

\* an exec that goes on after a failed release
ReleaseNextIgnoresFailure(r) == "wire"

\* where exec goes when ReleaseTerminal returned r
ReleaseNext(r) == IF r # NoErr THEN "report" ELSE "wire"

ReleaseTerminal ==
    /\ pc = "release"
    /\ \E r \in Outcomes :
        /\ outs' = [outs EXCEPT !.release = r]
        /\ released' = AfterRelease(released, r)
        /\ err' = (IF r # NoErr THEN ErrAfterReleaseFailure(r) ELSE err)
        /\ pc' = ReleaseNext(r)
    /\ trace' = Append(trace, "ReleaseTerminal")
    /\ UNCHANGED <<c, fn, loc, cbArg, msg, sends, stream, execId, io>>

\* an exec that binds the stderr proxy to a separate error stream
BindStderrApart(p) ==
    [stdinProxy  |-> [p.stdinProxy  EXCEPT !.From = "input"],
     stdoutProxy |-> [p.stdoutProxy EXCEPT !.From = "output"],
     stderrProxy |-> [p.stderrProxy EXCEPT !.From = "errout"]]

\* the proxies exec binds: copies of the command's, From set to the host's streams
Bind(p) ==
    [stdinProxy  |-> [p.stdinProxy  EXCEPT !.From = "input"],
     stdoutProxy |-> [p.stdoutProxy EXCEPT !.From = "output"],
     stderrProxy |-> [p.stderrProxy EXCEPT !.From = "output"]]

\* an exec that binds the command's own proxies, not copies of them
WireBindsInPlace ==
    /\ pc = "wire"
    /\ loc' = Bind(GetProxies(c))
    /\ c' = [c EXCEPT !.StdinProxy = loc'.stdinProxy, !.StdoutProxy = loc'.stdoutProxy,
                      !.StderrProxy = loc'.stderrProxy]
    /\ trace' = Append(trace, "GetProxies")
    /\ pc' = "setstdin"
    /\ UNCHANGED <<fn, err, outs, released, cbArg, msg, sends, stream, execId, io>>

Wire ==
    /\ pc = "wire"
    /\ loc' = Bind(GetProxies(c))
    /\ trace' = Append(trace, "GetProxies")
    /\ pc' = "setstdin"
    /\ UNCHANGED <<c, fn, err, outs, released, cbArg, msg, sends, stream, execId, io>>

CallSetStdin ==
    /\ pc = "setstdin"
    /\ c' = SetStdin(c, loc.stdinProxy)
    /\ trace' = Append(trace, "SetStdin")
    /\ pc' = "setstdout"
    /\ UNCHANGED <<fn, loc, err, outs, released, cbArg, msg, sends, stream, execId, io>>

CallSetStdout ==
    /\ pc = "setstdout"
    /\ c' = SetStdout(c, loc.stdoutProxy)
    /\ trace' = Append(trace, "SetStdout")
    /\ pc' = "setstderr"
    /\ UNCHANGED <<fn, loc, err, outs, released, cbArg, msg, sends, stream, execId, io>>

CallSetStderr ==
    /\ pc = "setstderr"
    /\ c' = SetStderr(c, loc.stderrProxy)
    /\ trace' = Append(trace, "SetStderr")
    /\ pc' = "run"
    /\ UNCHANGED <<fn, loc, err, outs, released, cbArg, msg, sends, stream, execId, io>>

\* c.Run() is entered
Run ==
    /\ pc = "run"
    /\ pc' = "running"
    /\ trace' = Append(trace, "Run")
    /\ UNCHANGED <<c, fn, loc, err, outs, released, cbArg, msg, sends, stream, execId, io>>

\* the running command reads its Stdin, which is the installed ReaderProxy
CmdRead ==
    /\ pc = "running"
    /\ c.Stdin.kind = "proxy"
    /\ \E d \in Data, n \in 0..BufLen, e \in IOOutcomes :
        LET r == Read(c.Stdin, ZeroBuf, d, n, e)
        IN  /\ io' = [op |-> "Read", log |-> r.log, ret |-> r.ret,
                       src |-> [d |-> d, n |-> n, err |-> e]]
            /\ pc' = (IF r.panic THEN "panic" ELSE pc)
    /\ UNCHANGED <<c, fn, loc, err, outs, released, trace, cbArg, msg, sends, stream, execId>>

\* the running command writes its Stdout or Stderr, an installed WriterProxy
CmdWrite ==
    /\ pc = "running"
    /\ \E w \in {c.Stdout, c.Stderr} :
        /\ w.kind = "proxy"
        /\ \E b \in Data, n \in 0..BufLen, e \in IOOutcomes :
            LET r == Write(w, b, n, e)
            IN  /\ io' = [op |-> "Write", log |-> r.log, ret |-> r.ret,
                           src |-> [d |-> b, n |-> n, err |-> e]]
                /\ pc' = (IF r.panic THEN "panic" ELSE pc)
    /\ UNCHANGED <<c, fn, loc, err, outs, released, trace, cbArg, msg, sends, stream, execId>>

\* an exec that runs the command again when it failed
RunNextRetries(e) == IF e # NoErr THEN "run" ELSE "restoreS"

\* where exec goes when c.Run() returned e
RunNext(e) == IF e # NoErr THEN "restoreF" ELSE "restoreS"

RunReturn ==
    /\ pc = "running"
    /\ \E e \in Outcomes :
        /\ outs' = [outs EXCEPT !.run = e]
        /\ err' = (IF e # NoErr THEN e ELSE err)
        /\ pc' = RunNext(e)
    /\ trace' = Append(trace, "RunReturn")
    /\ io' = NoIO
    /\ UNCHANGED <<c, fn, loc, released, cbArg, msg, sends, stream, execId>>

\* an exec that lets the restore outcome overwrite the run failure
ErrAfterRunFailureRestoreWins(runErr, r) == r

\* the err exec reports after Run failed with runErr and restore returned r
ErrAfterRunFailure(runErr, r) == runErr

\* _ = p.RestoreTerminal() after a failed Run
RestoreAfterFailure ==
    /\ pc = "restoreF"
    /\ \E r \in Outcomes :
        /\ outs' = [outs EXCEPT !.restore = r]
        /\ released' = AfterRestore(released, r)
        /\ err' = ErrAfterRunFailure(err, r)
    /\ trace' = Append(trace, "RestoreTerminal")
    /\ pc' = "report"
    /\ UNCHANGED <<c, fn, loc, cbArg, msg, sends, stream, execId, io>>

\* an exec that drops the restore outcome
ErrAfterRunSuccessNil(r) == NoErr

\* the err exec reports after Run succeeded and restore returned r
ErrAfterRunSuccess(r) == r

\* err := p.RestoreTerminal() after a successful Run
RestoreAfterSuccess ==
    /\ pc = "restoreS"
    /\ \E r \in Outcomes :
        /\ outs' = [outs EXCEPT !.restore = r]
        /\ released' = AfterRestore(released, r)
        /\ err' = ErrAfterRunSuccess(r)
    /\ trace' = Append(trace, "RestoreTerminal")
    /\ pc' = "report"
    /\ UNCHANGED <<c, fn, loc, cbArg, msg, sends, stream, execId, io>>

\* an exec without the nil check
ReportsAlways(f) == TRUE

\* if fn != nil: whether exec reports at all
Reports(f) == f

\* fn(err) is evaluated by exec itself: the operand of the go statement
CallFn ==
    /\ pc = "report"
    /\ Reports(fn)
    /\ cbArg' = Append(cbArg, err)
    /\ trace' = Append(trace, "fn")
    /\ pc' = "callback"
    /\ UNCHANGED <<c, fn, loc, err, outs, released, msg, sends, stream, execId, io>>

\* fn is nil: nothing is reported
SkipReport ==
    /\ pc = "report"
    /\ ~Reports(fn)
    /\ pc' = "return"
    /\ UNCHANGED <<c, fn, loc, err, outs, released, trace, cbArg, msg, sends, stream, execId, io>>

\* fn returns its Msg
FnReturn ==
    /\ pc = "callback"
    /\ msg' = fnMsg(execId, cbArg[Len(cbArg)])
    /\ pc' = "go"
    /\ UNCHANGED <<c, fn, loc, err, outs, released, trace, cbArg, sends, stream, execId, io>>

\* an exec that, after a failed Run, also reports a failed restore
GoSendThenRestoreFailure ==
    /\ pc = "go"
    /\ sends' = sends \cup {msg}
    /\ trace' = Append(trace, "Send")
    /\ IF outs.run \in Errors /\ outs.restore \in Errors /\ err # outs.restore
       THEN pc' = "report" /\ err' = outs.restore
       ELSE pc' = "return" /\ err' = err
    /\ UNCHANGED <<c, fn, loc, outs, released, cbArg, msg, stream, execId, io>>

\* go p.Send(msg): a new goroutine carries the Msg; exec goes on
GoSend ==
    /\ pc = "go"
    /\ sends' = sends \cup {msg}
    /\ trace' = Append(trace, "Send")
    /\ pc' = "return"
    /\ UNCHANGED <<c, fn, loc, err, outs, released, cbArg, msg, stream, execId>>
    /\ UNCHANGED io

\* an exec that calls p.Send itself and so waits for the event loop
CanReturnAfterDelivery == sends = {}

\* what exec's return waits for: nothing, p.Send runs in its own goroutine
CanReturn == TRUE

\* exec returns to the event loop; the command and the locals are dropped
ExecReturn ==
    /\ pc = "return"
    /\ CanReturn
    /\ pc' = "idle"
    /\ c' = NoCmd /\ fn' = FALSE /\ loc' = NoLoc /\ err' = -1 /\ outs' = NoOuts
    /\ trace' = << >> /\ cbArg' = << >> /\ msg' = NoMsg /\ io' = NoIO
    /\ UNCHANGED <<released, sends, stream, execId>>

\* ------------------------------------------------------------------ host loop
\* p.Send of one goroutine completes: the event loop, which is not inside
\* exec, receives the Msg
Send ==
    /\ pc = "idle"
    /\ \E m \in sends :
        /\ sends' = sends \ {m}
        /\ stream' = Append(stream, m)
    /\ UNCHANGED <<pc, c, fn, loc, err, outs, released, trace, cbArg, msg, execId, io>>

Next ==
    \/ Exec
    \/ ReleaseTerminal
    \/ Wire
    \/ CallSetStdin
    \/ CallSetStdout
    \/ CallSetStderr
    \/ Run
    \/ CmdRead
    \/ CmdWrite
    \/ RunReturn
    \/ RestoreAfterFailure
    \/ RestoreAfterSuccess
    \/ CallFn
    \/ SkipReport
    \/ FnReturn
    \/ GoSend
    \/ ExecReturn
    \/ Send

Spec == Init /\ [][Next]_vars

\* the steps exec takes by itself, and the returns of ReleaseTerminal, Run and
\* RestoreTerminal; the return of the callback fn is not among them
ExecSteps ==
    \/ ReleaseTerminal
    \/ Wire
    \/ CallSetStdin
    \/ CallSetStdout
    \/ CallSetStderr
    \/ Run
    \/ RunReturn
    \/ RestoreAfterFailure
    \/ RestoreAfterSuccess
    \/ CallFn
    \/ SkipReport
    \/ GoSend
    \/ ExecReturn

\* exec runs on the event loop's goroutine, which is scheduled; the terminal
\* operations and Run return.  Nothing makes the callback return, the command
\* do I/O, the host receive a Msg or a further execution start.
\* The event loop is about to perform its last execution: the earlier ones had
\* no callback and left the terminal released (a failed restore) or not.
LiveInit ==
    /\ pc = "idle"
    /\ execId = MaxExecs - 1
    /\ released \in BOOLEAN
    /\ c = NoCmd /\ fn = FALSE /\ loc = NoLoc /\ err = -1 /\ outs = NoOuts
    /\ trace = << >> /\ cbArg = << >> /\ msg = NoMsg /\ io = NoIO
    /\ sends = {} /\ stream = << >>

LiveSpec == LiveInit /\ [][Next]_vars /\ WF_vars(ExecSteps)

\* ------------------------------------------------- the setters on their own
\* Any sequence of calls of SetStdin, SetStdout, SetStderr on an OsExecCommand
\* whose streams the caller left unset or bound.  trace records the values
\* given for each stream, the caller's configuration first.
StreamArgs == {Proxy("input", TRUE), Proxy("output", TRUE), OwnStream}
Given(slot, v) == [slot |-> slot, v |-> v]

SetterInit ==
    /\ pc = "setters"
    /\ \E si \in Slots, so \in Slots, se \in Slots :
        /\ c = wrapExecCommand(si, so, se, "nil", TRUE, TRUE, TRUE)
        /\ trace = <<Given("Stdin", si), Given("Stdout", so), Given("Stderr", se)>>
    /\ fn = FALSE /\ loc = NoLoc /\ err = -1 /\ outs = NoOuts /\ released = FALSE
    /\ cbArg = << >> /\ msg = NoMsg /\ sends = {} /\ stream = << >>
    /\ execId = 0 /\ io = NoIO

SetterFrame == UNCHANGED <<pc, fn, loc, err, outs, released, cbArg, msg, sends, stream, execId, io>>

ApplySetStdin ==
    /\ pc = "setters" /\ Len(trace) < 3 + MaxSets
    /\ \E v \in StreamArgs :
        /\ c' = SetStdin(c, v)
        /\ trace' = Append(trace, Given("Stdin", v))
    /\ SetterFrame

ApplySetStdout ==
    /\ pc = "setters" /\ Len(trace) < 3 + MaxSets
    /\ \E v \in StreamArgs :
        /\ c' = SetStdout(c, v)
        /\ trace' = Append(trace, Given("Stdout", v))
    /\ SetterFrame

ApplySetStderr ==
    /\ pc = "setters" /\ Len(trace) < 3 + MaxSets
    /\ \E v \in StreamArgs :
        /\ c' = SetStderr(c, v)
        /\ trace' = Append(trace, Given("Stderr", v))
    /\ SetterFrame

SetterNext == ApplySetStdin \/ ApplySetStdout \/ ApplySetStderr

SetterSpec == SetterInit /\ [][SetterNext]_vars

TypeOK ==
    /\ pc \in {"idle", "release", "wire", "setstdin", "setstdout", "setstderr", "run",
               "running", "restoreF", "restoreS", "report", "callback", "go", "return", "panic"}
    /\ fn \in BOOLEAN
    /\ released \in BOOLEAN
    /\ execId \in 0..MaxExecs

\* ------------------------------------------------------------------ helpers
Count(x) == Cardinality({i \in 1..Len(trace) : trace[i] = x})
Called(x) == \E i \in 1..Len(trace) : trace[i] = x
Before(x, y) == \A i \in 1..Len(trace), j \in 1..Len(trace) :
                    (trace[i] = x /\ trace[j] = y) => i < j
IsPrefix(s, t) == Len(s) <= Len(t) /\ \A i \in 1..Len(s) : s[i] = t[i]

\* exec is past its last call to the terminal and to Run
AfterRestorePoint == pc \in {"report", "callback", "go", "return"}
\* exec is past the go statement
Reported == pc = "return"

\* ------------------------------------------------------------------- claims

\* C1: in an execution whose ReleaseTerminal returned a failure, Run is never
\* invoked and RestoreTerminal is never invoked, with or without a callback.
C1_ReleaseFailureAborts ==
    outs.release \in Errors => (~Called("Run") /\ ~Called("RestoreTerminal")
                                /\ outs.run = -1 /\ outs.restore = -1)

C1_Witness == pc = "return" /\ outs.release \in Errors /\ fn /\ Len(cbArg) = 1

\* C2: when release succeeded and Run returned a failure E, RestoreTerminal is
\* invoked exactly once, after Run returned, and the callback receives E
\* whether that restore succeeded or failed.
C2_RunFailureReported ==
    (outs.release = NoErr /\ outs.run \in Errors) =>
        /\ Count("RestoreTerminal") <= 1
        /\ Before("RunReturn", "RestoreTerminal")
        /\ AfterRestorePoint => Count("RestoreTerminal") = 1
        /\ \A i \in 1..Len(cbArg) : cbArg[i] = outs.run
        /\ (Reported /\ fn) => cbArg = <<outs.run>>

C2_Witness ==
    /\ pc = "return" /\ fn /\ outs.release = NoErr
    /\ outs.run \in Errors /\ outs.restore \in Errors /\ outs.restore # outs.run
    /\ cbArg = <<outs.run>>

\* C3: when release succeeded and Run returned no failure, RestoreTerminal is
\* invoked exactly once and the callback receives the value restore returned:
\* nil when it succeeded, the restore failure when it failed.
C3_RestoreOutcomeReported ==
    (outs.release = NoErr /\ outs.run = NoErr) =>
        /\ Count("RestoreTerminal") <= 1
        /\ Before("RunReturn", "RestoreTerminal")
        /\ AfterRestorePoint => Count("RestoreTerminal") = 1
        /\ \A i \in 1..Len(cbArg) : cbArg[i] = outs.restore
        /\ (Reported /\ fn) => cbArg = <<outs.restore>>

C3_Witness ==
    /\ pc = "return" /\ fn /\ outs.release = NoErr /\ outs.run = NoErr
    /\ outs.restore \in Errors /\ cbArg = <<outs.restore>>

\* C4: when ReleaseTerminal failed with R and a callback is present, the
\* callback receives exactly R and the Msg it returns is the one handed to
\* p.Send.
C4_ReleaseFailureReported ==
    (outs.release \in Errors /\ fn) =>
        /\ \A i \in 1..Len(cbArg) : cbArg[i] = outs.release
        /\ Reported => /\ cbArg = <<outs.release>>
                       /\ msg = fnMsg(execId, outs.release)
                       /\ msg \in sends
                       /\ Count("Send") = 1

C4_Witness ==
    /\ pc = "return" /\ fn /\ outs.release \in Errors
    /\ cbArg = <<outs.release>> /\ msg \in sends

\* C5 as stated: the callback runs as an independent unit of work, so exec
\* never waits for the callback to return.
C5_CallbackNeverHoldsExec == pc # "callback"

\* C5 as amended: exec evaluates fn(err) itself and hands the Msg fn returned
\* to a goroutine only after fn has returned; exec then returns without
\* waiting for the event loop to receive the Msg, which is still undelivered
\* when exec returns.
C5_OnlyDeliveryIsAsynchronous ==
    /\ (pc \in {"go", "return"} /\ fn) => (Called("fn") /\ msg = fnMsg(execId, err))
    /\ (pc = "return" /\ fn) => (msg \in sends /\ ENABLED ExecReturn)

C5_Witness == pc = "return" /\ fn /\ msg \in sends /\ Cardinality(sends) = 2

\* C6: while an execution without a callback (fn is nil) is in progress, on
\* every path, fn is never called, no goroutine is started for p.Send and no
\* message enters the host's event stream; exec reaches its return.
C6_NilCallbackIsSilent ==
    [][(pc # "idle" /\ ~fn) =>
          /\ sends' = sends
          /\ stream' = stream
          /\ cbArg' = << >>
          /\ pc' \notin {"callback", "go"}
          /\ (pc = "report" => pc' = "return")]_vars

C6_Witness ==
    /\ pc = "return" /\ ~fn /\ outs.run \in Errors /\ outs.restore \in Errors
    /\ cbArg = << >> /\ ~Called("Send")

\* the calls of an execution, in the order of Program.exec
FullOrder == <<"ReleaseTerminal", "GetProxies", "SetStdin", "SetStdout", "SetStderr",
               "Run", "RunReturn", "RestoreTerminal", "fn", "Send">>
AbortOrder == <<"ReleaseTerminal", "fn", "Send">>
Silent(order) == SelectSeq(order, LAMBDA x : x \notin {"fn", "Send"})

\* C7: the calls of an execution follow the order release, GetProxies and the
\* three setters, Run, restore, reporting; each is made at most once, a later
\* one only after the earlier one returned, and reporting is the last.
C7_FixedStepOrder ==
    /\ pc = "idle" => trace = << >>
    /\ pc # "idle" =>
        LET order == IF outs.release \in Errors THEN AbortOrder ELSE FullOrder
        IN  /\ IsPrefix(trace, IF fn THEN order ELSE Silent(order))
            /\ pc = "return" => trace = (IF fn THEN order ELSE Silent(order))

C7_Witness ==
    pc = "return" /\ fn /\ outs.run \in Errors /\ trace = FullOrder

\* C8: while Run is in progress the terminal has been released successfully
\* and restore has not been invoked; the event loop receives no message and
\* starts no other execution between the start of an execution and its return.
C8_ExclusiveTerminal ==
    [][/\ pc' = "running" => /\ released'
                             /\ outs'.release = NoErr
                             /\ ~(\E i \in 1..Len(trace') : trace'[i] = "RestoreTerminal")
       /\ pc # "idle" => (stream' = stream /\ execId' = execId)]_vars

C8_Witness == pc = "running" /\ released /\ sends # {} /\ io.op # "none"

\* C9: the messages of two executions with callbacks enter the host's event
\* stream in the order in which the executions completed.
C9_DeliveryInCompletionOrder ==
    \A i \in 1..Len(stream), j \in 1..Len(stream) :
        i < j => stream[i].id < stream[j].id

\* C10: a call ReaderProxy.Read(b) on a proxy with an observer calls the
\* source's Read once, then the observer once with the same buffer and the
\* (n, err) the source returned, and returns that (n, err) with the buffer
\* as the source left it.
C10_ReadIsTransparent ==
    (io.op = "Read" /\ c.Stdin.Handler) =>
        LET b1 == [i \in 1..BufLen |-> IF i <= io.src.n THEN io.src.d[i] ELSE 0]
        IN  /\ Len(io.log) = 2
            /\ io.log[1] = Ev("From.Read", "input", ZeroBuf, io.src.n, io.src.err)
            /\ io.log[2] = Ev("Handler", "input", b1, io.src.n, io.src.err)
            /\ io.ret = [n |-> io.src.n, err |-> io.src.err, b |-> b1]
            /\ pc # "panic"

C10_Witness ==
    /\ io.op = "Read" /\ c.Stdin.Handler
    /\ io.src.n = 1 /\ io.src.err \in Errors /\ io.ret.n = 1 /\ io.ret.b[1] # 0

\* the ops of the events of the last proxy call, in order
Ops == [i \in 1..Len(io.log) |-> io.log[i].op]

\* C11: a call WriterProxy.Write(b) on a proxy with an observer calls the
\* observer once, before the sink, calls the sink's Write once with the same
\* buffer, and returns the (n, err) the sink returned.
C11_WriteObservesThenDelegates ==
    (io.op = "Write" /\ io.ret # NoRet) =>
        /\ Ops = <<"Handler", "From.Write">>
        /\ io.log[1].b = io.src.d
        /\ io.log[2].b = io.src.d
        /\ io.log[2].from = "output"
        /\ io.ret = [n |-> io.src.n, err |-> io.src.err, b |-> io.src.d]

C11_Witness ==
    /\ io.op = "Write" /\ pc = "running" /\ Ops = <<"Handler", "From.Write">>
    /\ io.ret.n = 1 /\ io.ret.err \in Errors

\* C12: Read and Write on a proxy whose Handler is absent complete without a
\* panic, so an execution never panics when its command reads or writes.
C12_NilHandlerIsSafe == pc # "panic"

\* C17: the observer of a WriterProxy is called with n = 0 and err = nil
\* whatever the sink returns; the observer of a ReaderProxy is called with the
\* (n, err) its source returned.
C17_WriteObserverSeesZeroValues ==
    \A i \in 1..Len(io.log) :
        io.log[i].op = "Handler" =>
            /\ io.op = "Write" => (io.log[i].n = 0 /\ io.log[i].err = NoErr)
            /\ io.op = "Read"  => (io.log[i].n = io.src.n /\ io.log[i].err = io.src.err)

C17_Witness ==
    /\ io.op = "Write" /\ Len(io.log) = 2 /\ io.log[1].op = "Handler"
    /\ io.src.n = BufLen /\ io.src.err \in Errors
    /\ io.log[1].n = 0 /\ io.log[1].err = NoErr

\* the first non-nil value given for a stream, nil when there is none
FirstGiven(slot) ==
    LET idx == {i \in 1..Len(trace) : trace[i].slot = slot /\ trace[i].v.kind # "nil"}
    IN  IF idx = {} THEN NilStream
        ELSE trace[CHOOSE i \in idx : \A j \in idx : i <= j].v

\* C13: a setter leaves a stream that is already set unchanged, stores the
\* given stream in one that is unset, and leaves the other two streams alone;
\* so after any sequence of setter calls each stream holds the first value
\* assigned to it, by the caller or by the first setter call.
C13_SettersFillOnlyUnset ==
    pc = "setters" =>
        /\ c.Stdin  = FirstGiven("Stdin")
        /\ c.Stdout = FirstGiven("Stdout")
        /\ c.Stderr = FirstGiven("Stderr")
        /\ c.StdinProxy = Proxy("nil", TRUE)
        /\ c.StdoutProxy = Proxy("nil", TRUE)
        /\ c.StderrProxy = Proxy("nil", TRUE)

C13_Witness ==
    /\ pc = "setters" /\ Len(trace) = 6
    /\ trace[1].v = NilStream /\ trace[2].v = OwnStream
    /\ trace[4].slot = "Stdout" /\ trace[4].v = Proxy("output", TRUE)
    /\ trace[5].slot = "Stdin" /\ trace[6].slot = "Stdin" /\ trace[5].v # trace[6].v
    /\ c.Stdin = trace[5].v /\ c.Stdout = OwnStream

\* exec is between its entry and its return
InExec == pc \notin {"idle", "setters"}

C18_CommandProxiesUntouched ==
    [][(InExec /\ pc' \notin {"idle", "setters"}) =>
          /\ c'.StdinProxy = c.StdinProxy
          /\ c'.StdoutProxy = c.StdoutProxy
          /\ c'.StderrProxy = c.StderrProxy
          /\ c'.StdinProxy.From \notin {"input", "output"}
          /\ outs'.release \in Errors =>
                /\ c' = c
                /\ \A i \in 1..Len(trace') :
                      trace'[i] \notin {"GetProxies", "SetStdin", "SetStdout", "SetStderr"}]_vars

C18_Witness ==
    /\ pc = "return" /\ outs.release = NoErr
    /\ c.StdinProxy.From = "caller" /\ c.Stdin = Proxy("input", c.StdinProxy.Handler)
    /\ c.StdoutProxy.From = "caller" /\ c.Stdout.From = "output"

\* the goroutines started for the current execution
OwnSends == {m \in sends : m.id = execId}

\* C16: in an execution with a callback, on each of the three paths (release
\* failure, run failure, run success) the callback is called exactly once and
\* exactly one Msg is handed to p.Send, also when a failed restore follows a
\* failed Run.
C16_ExactlyOneReport ==
    (InExec /\ fn) =>
        /\ Len(cbArg) = Count("fn") /\ Count("fn") <= 1 /\ Count("Send") <= 1
        /\ Cardinality(OwnSends) = Count("Send")
        /\ pc = "return" => (Count("fn") = 1 /\ Count("Send") = 1 /\ OwnSends = {msg})

C16_Witness ==
    /\ pc = "return" /\ fn /\ outs.run \in Errors /\ outs.restore \in Errors
    /\ outs.run # outs.restore /\ Count("fn") = 1 /\ OwnSends = {msg}

\* exec has returned, or Run did not return (the command's I/O panicked)
ExecOver == pc \in {"idle", "panic"}

====
